---- MODULE Spec2Model ----
(***************************************************************************)
(* Kinetic state of a simulated rigid body (crate simscript-physics):      *)
(* InertiaMass, Transform, Momentum, Panel, State and the Runge-Kutta      *)
(* step State::simulation_step.                                            *)
(*                                                                         *)
(* Numbers.  An f64 is modelled by the rational it stands for, a          *)
(* normalised pair <<n, d>> with d > 0; the non-finite values are the      *)
(* pairs with d = 0: <<1, 0>> is +inf, <<-1, 0>> is -inf and <<0, 0>> is   *)
(* NaN (zeros carry no sign).  The variable arith fixes the                *)
(* arithmetic of a behaviour: "real" computes every operation exactly,     *)
(* "float" rounds the result of every operation to the nearest binary      *)
(* floating-point number with MantissaBits significant bits, ties to even  *)
(* (IEEE 754 with the significand shortened; exponent range unbounded).    *)
(* A std::time::Duration is a whole number of ticks (nanoseconds in the    *)
(* program); Duration / u32 is the truncating division of the tick count   *)
(* and as_secs_f64 divides the tick count by TicksPerSec.                  *)
(*                                                                         *)
(* Units.  Quat::from_scaled_axis is exact only on angle vectors that are  *)
(* whole numbers of half turns about a coordinate axis, so momenta,        *)
(* velocities, forces, torques and translations are measured in units of   *)
(* pi times the SI unit and panel areas in units of 1/pi m^2; every        *)
(* equation of the code is unchanged by this choice of units.              *)
(***************************************************************************)
EXTENDS Integers, Sequences, FiniteSets, TLC

----------------------------------------------------------------------------
(* Bounds of the model *)

\* Ticks of a Duration per second (10^9 in std::time::Duration).
TicksPerSec == 2
\* Largest Duration, in ticks, handed to simulation_step.
MaxDelta == 6
\* Number of simulation_step calls in one behaviour.
MaxSteps == 2
\* Significant bits of a floating-point number (53 in an f64).
MantissaBits == 3
\* Number of InertiaMass::rotated / rot_mat calls in one behaviour.
MaxRotations == 2
\* Number of assigning operator calls (+=, -=) in one behaviour.
MaxAssigns == 1
\* Number of calls on a StateBuilder before build.
MaxBuilderCalls == 4

----------------------------------------------------------------------------
(* The entity and the values the calls act on *)

VARIABLES
    arith,  \* "real" or "float": the arithmetic of this behaviour
    state,  \* the State value (mass, transform, momentum, panels)
    imass,  \* an InertiaMass value, rotated by rotated / rot_mat calls
    rk,     \* the locals of the last simulation_step call
    steps,  \* number of mutating calls made
    hist,   \* the State as constructed, and whether every moment so far was zero
    ret     \* the last call and what it returned

vars == <<arith, state, imass, rk, steps, hist, ret>>

----------------------------------------------------------------------------
(* f64 arithmetic *)

Abs(n) == IF n < 0 THEN -n ELSE n

RECURSIVE GCD(_, _)
GCD(a, b) == IF b = 0 THEN a ELSE GCD(b, a % b)

Rat(n, d) ==
    IF d = 0 THEN <<(IF n > 0 THEN 1 ELSE IF n < 0 THEN -1 ELSE 0), 0>>
    ELSE LET g == GCD(Abs(n), Abs(d))
             s == IF d < 0 THEN -1 ELSE 1
         IN  <<(s * n) \div g, (s * d) \div g>>

Inf == <<1, 0>>
NaN == <<0, 0>>
IsFinite(x) == x[2] # 0

Int2R(n) == <<n, 1>>
R0 == <<0, 1>>
R1 == <<1, 1>>
R2 == <<2, 1>>

\* The floating-point number nearest to n / d > 0, ties to the even significand.
RECURSIVE RoundPos(_, _)
RoundPos(n, d) ==
    IF n >= d * 2^MantissaBits
    THEN (CHOOSE x \in {Rat(2 * r[1], r[2]) : r \in {RoundPos(n, 2 * d)}} : TRUE)
    ELSE IF n < d * 2^(MantissaBits - 1)
    THEN (CHOOSE x \in {Rat(r[1], 2 * r[2]) : r \in {RoundPos(2 * n, d)}} : TRUE)
    ELSE LET q == n \div d
             r == n % d
         IN  IF 2 * r > d \/ (2 * r = d /\ q % 2 = 1) THEN <<q + 1, 1>> ELSE <<q, 1>>

RoundFloat(x) ==
    IF x[1] = 0 \/ x[2] = 0 THEN x
    ELSE IF x[1] > 0 THEN RoundPos(x[1], x[2])
    ELSE (CHOOSE y \in {<<-r[1], r[2]>> : r \in {RoundPos(-x[1], x[2])}} : TRUE)

\* The result of one f64 operation whose exact value is x.
F64(x) == IF arith = "real" THEN x ELSE RoundFloat(x)

\* A sum is formed over the least common denominator, so that no intermediate
\* integer is larger than the result needs.
RAdd(a, b) ==
    IF a[2] = 0 /\ b[2] = 0 THEN (IF a = b THEN a ELSE NaN)
    ELSE IF a[2] = b[2] THEN F64(Rat(a[1] + b[1], a[2]))
    ELSE IF a[2] = 1 THEN F64(<<a[1] * b[2] + b[1], b[2]>>)
    ELSE IF b[2] = 1 THEN F64(<<a[1] + b[1] * a[2], a[2]>>)
    ELSE (CHOOSE r \in {F64(Rat(a[1] * (b[2] \div g) + b[1] * (a[2] \div g),
                                (a[2] \div g) * b[2])) : g \in {GCD(a[2], b[2])}} : TRUE)
RNeg(a) == <<-a[1], a[2]>>
RSub(a, b) == RAdd(a, RNeg(b))
RMul(a, b) == F64(Rat(a[1] * b[1], a[2] * b[2]))
RDiv(a, b) ==
    IF b[1] < 0 THEN F64(Rat(-(a[1] * b[2]), a[2] * (-b[1])))
    ELSE F64(Rat(a[1] * b[2], a[2] * b[1]))
RRecip(a) == F64(Rat(a[2], a[1]))
RIsZero(a) == a[1] = 0 /\ a[2] # 0
RLt(a, b) == a[1] * b[2] < b[1] * a[2]

----------------------------------------------------------------------------
(* Operands are evaluated once, before the operation is applied to them *)

On1(a, F(_)) == CHOOSE r \in {F(x) : x \in {a}} : TRUE
On2(a, b, F(_, _)) == CHOOSE r \in {F(x, y) : x \in {a}, y \in {b}} : TRUE

----------------------------------------------------------------------------
(* glam::DVec3 *)

V3(x, y, z) == <<x, y, z>>
VecI(x, y, z) == <<Int2R(x), Int2R(y), Int2R(z)>>
VZero == VecI(0, 0, 0)
VX == VecI(1, 0, 0)
VY == VecI(0, 1, 0)
VZ == VecI(0, 0, 1)

VAdd(a, b) ==
    On2(a, b, LAMBDA x, y : <<RAdd(x[1], y[1]), RAdd(x[2], y[2]), RAdd(x[3], y[3])>>)
VSub(a, b) ==
    On2(a, b, LAMBDA x, y : <<RSub(x[1], y[1]), RSub(x[2], y[2]), RSub(x[3], y[3])>>)
VNeg(a) == On1(a, LAMBDA x : <<RNeg(x[1]), RNeg(x[2]), RNeg(x[3])>>)
VScale(a, s) ==
    On2(a, s, LAMBDA x, t : <<RMul(x[1], t), RMul(x[2], t), RMul(x[3], t)>>)
VDivS(a, s) ==
    On2(a, s, LAMBDA x, t : <<RDiv(x[1], t), RDiv(x[2], t), RDiv(x[3], t)>>)
VMulV(a, b) ==
    On2(a, b, LAMBDA x, y : <<RMul(x[1], y[1]), RMul(x[2], y[2]), RMul(x[3], y[3])>>)
VDot(a, b) ==
    On2(a, b, LAMBDA x, y :
        RAdd(RAdd(RMul(x[1], y[1]), RMul(x[2], y[2])), RMul(x[3], y[3])))
VCross(a, b) ==
    On2(a, b, LAMBDA x, y :
        << RSub(RMul(x[2], y[3]), RMul(y[2], x[3])),
           RSub(RMul(x[3], y[1]), RMul(y[3], x[1])),
           RSub(RMul(x[1], y[2]), RMul(y[1], x[2])) >>)
Xzy(a) == On1(a, LAMBDA x : <<x[1], x[3], x[2]>>)

----------------------------------------------------------------------------
(* glam::DMat3, column major: <<x_axis, y_axis, z_axis>> *)

MatCols(c1, c2, c3) == <<c1, c2, c3>>
MatIdentity == MatCols(VX, VY, VZ)
MatDiag(a, b, c) == MatCols(V3(a, R0, R0), V3(R0, b, R0), V3(R0, R0, c))

\* DMat3::mul_vec3
MatMulVec3(m, v) ==
    On2(m, v, LAMBDA x, y :
        VAdd(VAdd(VScale(x[1], y[1]), VScale(x[2], y[2])), VScale(x[3], y[3])))
\* DMat3::mul_mat3
MatMul(a, b) ==
    On2(a, b, LAMBDA x, y :
        MatCols(MatMulVec3(x, y[1]), MatMulVec3(x, y[2]), MatMulVec3(x, y[3])))
MatTranspose(m) ==
    On1(m, LAMBDA x :
        MatCols(V3(x[1][1], x[2][1], x[3][1]),
                V3(x[1][2], x[2][2], x[3][2]),
                V3(x[1][3], x[2][3], x[3][3])))

\* DMat3::inverse: cofactor columns scaled by the reciprocal determinant and
\* transposed.  Taken on matrices with a nonzero determinant.
\* The determinant as DMat3::inverse computes it.
MatDeterminant(m) == VDot(m[3], VCross(m[1], m[2]))

MatInverse(m) ==
    On1(m, LAMBDA x :
        On1(<<VCross(x[2], x[3]), VCross(x[3], x[1]), VCross(x[1], x[2])>>,
            LAMBDA tmp :
                On1(RRecip(VDot(x[3], tmp[3])), LAMBDA inv_det :
                    MatTranspose(MatCols(VScale(tmp[1], inv_det),
                                         VScale(tmp[2], inv_det),
                                         VScale(tmp[3], inv_det))))))

----------------------------------------------------------------------------
(* glam::DQuat, <<x, y, z, w>> *)

Quat(x, y, z, w) == <<x, y, z, w>>
QuatIdentity == Quat(R0, R0, R0, R1)

\* DQuat * DQuat
QuatMul(a, b) ==
    On2(a, b, LAMBDA p, q :
        Quat(RAdd(RSub(RAdd(RMul(p[4], q[1]), RMul(p[1], q[4])), RMul(p[3], q[2])),
                  RMul(p[2], q[3])),
             RAdd(RAdd(RSub(RMul(p[4], q[2]), RMul(p[1], q[3])), RMul(p[2], q[4])),
                  RMul(p[3], q[1])),
             RAdd(RSub(RAdd(RMul(p[4], q[3]), RMul(p[1], q[2])), RMul(p[2], q[1])),
                  RMul(p[3], q[4])),
             RSub(RSub(RSub(RMul(p[4], q[4]), RMul(p[1], q[1])), RMul(p[2], q[2])),
                  RMul(p[3], q[3]))))

\* A faulty variant of inverse: the quaternion itself.
QuatInverseNoConjugate(q) == On1(q, LAMBDA p : Quat(p[1], p[2], p[3], p[4]))

\* DQuat::inverse is the conjugate (the quaternion is taken to be normalised).
QuatInverse(q) == On1(q, LAMBDA p : Quat(RNeg(p[1]), RNeg(p[2]), RNeg(p[3]), p[4]))

\* DQuat * DVec3
QuatMulVec3(q, v) ==
    On2(q, v, LAMBDA p, u :
        On1(V3(p[1], p[2], p[3]), LAMBDA b :
            VAdd(VAdd(VScale(u, RSub(RMul(p[4], p[4]), VDot(b, b))),
                      VScale(b, RMul(VDot(u, b), R2))),
                 VScale(VCross(b, u), RMul(p[4], R2)))))

\* DMat3::from_quat
MatFromQuat(q) ==
    On1(q, LAMBDA p :
        On1([x2 |-> RAdd(p[1], p[1]), y2 |-> RAdd(p[2], p[2]), z2 |-> RAdd(p[3], p[3])],
            LAMBDA d :
                On1([xx |-> RMul(p[1], d.x2), xy |-> RMul(p[1], d.y2),
                     xz |-> RMul(p[1], d.z2), yy |-> RMul(p[2], d.y2),
                     yz |-> RMul(p[2], d.z2), zz |-> RMul(p[3], d.z2),
                     wx |-> RMul(p[4], d.x2), wy |-> RMul(p[4], d.y2),
                     wz |-> RMul(p[4], d.z2)],
                    LAMBDA t :
                        MatCols(V3(RSub(R1, RAdd(t.yy, t.zz)), RAdd(t.xy, t.wz),
                                   RSub(t.xz, t.wy)),
                                V3(RSub(t.xy, t.wz), RSub(R1, RAdd(t.xx, t.zz)),
                                   RAdd(t.yz, t.wx)),
                                V3(RAdd(t.xz, t.wy), RSub(t.yz, t.wx),
                                   RSub(R1, RAdd(t.xx, t.yy)))))))

----------------------------------------------------------------------------
(* std::time::Duration *)

DurationDiv(d, n) == d \div n
AsSecsF64(d) == RDiv(Int2R(d), Int2R(TicksPerSec))

----------------------------------------------------------------------------
(* Quat::from_scaled_axis *)

\* The angle vectors on which from_scaled_axis is exact: zero, or a whole
\* number of half turns about one coordinate axis.
IsAxisAngle(v) ==
    /\ \A i \in 1..3 : v[i][2] = 1
    /\ Cardinality({i \in 1..3 : v[i][1] # 0}) <= 1

\* length = |v|; zero length gives the identity, otherwise
\* from_axis_angle(v / length, length) = (axis * sin(length/2), cos(length/2)).
QuatFromScaledAxis(v) ==
    IF v = VZero THEN QuatIdentity
    ELSE LET i == CHOOSE j \in 1..3 : v[j][1] # 0
             length == Abs(v[i][1])
             axis == VDivS(v, Int2R(length))
             s == CASE length % 4 = 0 -> 0
                    [] length % 4 = 1 -> 1
                    [] length % 4 = 2 -> 0
                    [] length % 4 = 3 -> -1
             c == CASE length % 4 = 0 -> 1
                    [] length % 4 = 1 -> 0
                    [] length % 4 = 2 -> -1
                    [] length % 4 = 3 -> 0
             xyz == VScale(axis, Int2R(s))
         IN  Quat(xyz[1], xyz[2], xyz[3], Int2R(c))

----------------------------------------------------------------------------
(* inertia_mass: Inertia, InertiaMass *)

InertiaCylinderX(height, radius, mass) ==
    LET h2 == RMul(height, height)
        r2 == RMul(radius, radius)
        side == RAdd(RDiv(RMul(mass, h2), Int2R(12)), RDiv(RMul(mass, r2), Int2R(4)))
        front == RDiv(RMul(mass, r2), R2)
    IN  MatCols(V3(front, R0, R0), V3(R0, side, R0), V3(R0, R0, side))

InertiaRotMat(inertia, rot) == MatMul(MatMul(rot, inertia), MatTranspose(rot))

InertiaRotated(inertia, rot) == InertiaRotMat(inertia, MatFromQuat(rot))

InertiaMassNew(mass, inertia) ==
    [mass |-> mass, inertia |-> inertia, inv_inertia |-> MatInverse(inertia)]

InertiaMassRotated(im, rot) == InertiaMassNew(im.mass, InertiaRotated(im.inertia, rot))

\* A faulty variant of rot_mat: the inverse tensor is kept as it was.
InertiaMassRotMatStaleInverse(im, rot) ==
    [mass |-> im.mass, inertia |-> InertiaRotMat(im.inertia, rot),
     inv_inertia |-> im.inv_inertia]
InertiaMassRotMat(im, rot) == InertiaMassNew(im.mass, InertiaRotMat(im.inertia, rot))

----------------------------------------------------------------------------
(* transform: Translation, Rotation, Transform *)

\* A faulty variant: the operands of the product exchanged.
RotationAddReversed(a, b) == QuatMul(a, b)
RotationAdd(a, b) == QuatMul(b, a)
\* A faulty variant: b is not inverted.
RotationSubNoInverse(a, b) == QuatMul(b, a)
RotationSub(a, b) == QuatMul(QuatInverse(b), a)
\* a += b and a -= b: the value a holds afterwards.
RotationAddAssign(a, b) == QuatMul(b, a)
RotationSubAssign(a, b) == QuatMul(QuatInverse(b), a)

TransformNew(lin, ang) == [translation |-> lin, rotation |-> ang]
TransformZERO == TransformNew(VZero, QuatIdentity)

\* A faulty variant: the rotation of b is dropped.
TransformAddTranslationOnly(a, b) ==
    [translation |-> VAdd(a.translation, b.translation),
     rotation |-> a.rotation]
TransformAdd(a, b) ==
    [translation |-> VAdd(a.translation, b.translation),
     rotation |-> RotationAdd(a.rotation, b.rotation)]
TransformSub(a, b) ==
    [translation |-> VSub(a.translation, b.translation),
     rotation |-> RotationSub(a.rotation, b.rotation)]
\* a += b and a -= b: the value a holds afterwards.
TransformAddAssign(a, b) ==
    [translation |-> VAdd(a.translation, b.translation),
     rotation |-> RotationAddAssign(a.rotation, b.rotation)]
TransformSubAssign(a, b) ==
    [translation |-> VSub(a.translation, b.translation),
     rotation |-> RotationSubAssign(a.rotation, b.rotation)]

----------------------------------------------------------------------------
(* momentum, velocity, moments *)

MomentumNew(lin, ang) == [linear |-> lin, angular |-> ang]
MomentumZERO == MomentumNew(VZero, VZero)
MomentumAdd(a, b) ==
    MomentumNew(VAdd(a.linear, b.linear), VAdd(a.angular, b.angular))

LinMomDivMass(a, b) == VDivS(a, b)
AngMomDivInertia(a, b) == MatMulVec3(b, a)

\* Momentum / InertiaMass
MomentumDivInertiaMass(a, b) ==
    [linear |-> LinMomDivMass(a.linear, b.mass),
     angular |-> AngMomDivInertia(a.angular, b.inv_inertia)]

VelocityNew(lin, ang) == [linear |-> lin, angular |-> ang]
VelocityAdd(a, b) ==
    VelocityNew(VAdd(a.linear, b.linear), VAdd(a.angular, b.angular))
VelocityMulF64(a, b) == VelocityNew(VScale(a.linear, b), VScale(a.angular, b))

LinVelMulDur(a, d) == VScale(a, AsSecsF64(d))
AngVelMulDur(a, d) == QuatFromScaledAxis(VScale(a, AsSecsF64(d)))
\* Velocity * Duration -> Transform
VelocityMulDur(a, d) ==
    TransformNew(LinVelMulDur(a.linear, d), AngVelMulDur(a.angular, d))

MomentNew(force, torque) == [force |-> force, torque |-> torque]
MomentZERO == MomentNew(VZero, VZero)
MomentAdd(a, b) == MomentNew(VAdd(a.force, b.force), VAdd(a.torque, b.torque))
MomentMulF64(a, b) == MomentNew(VScale(a.force, b), VScale(a.torque, b))
\* Moment * Duration -> Momentum
MomentMulDur(a, d) ==
    MomentumNew(VScale(a.force, AsSecsF64(d)), VScale(a.torque, AsSecsF64(d)))

----------------------------------------------------------------------------
(* State *)

StateNew(mass, transform, momentum, panels) ==
    [mass |-> mass, transform |-> transform, momentum |-> momentum,
     panels |-> panels]

StateWithoutPanels(mass, transform, momentum) ==
    StateNew(mass, transform, momentum, <<>>)

RotatedMass(s) == InertiaMassRotated(s.mass, s.transform.rotation)
\* A faulty variant of rotated_inertia: the tensor is rotated the other way.
RotatedInertiaInverseRotation(s) ==
    InertiaRotated(s.mass.inertia, QuatInverse(s.transform.rotation))
RotatedInertia(s) == InertiaRotated(s.mass.inertia, s.transform.rotation)
RotatedInvInertia(s) == InertiaRotated(s.mass.inv_inertia, s.transform.rotation)

\* A faulty variant of velocity: the body-frame inverse tensor is used unrotated.
StateVelocityBodyFrame(s) ==
    LET linvel == LinMomDivMass(s.momentum.linear, s.mass.mass)
        angvel == AngMomDivInertia(s.momentum.angular, s.mass.inv_inertia)
    IN  VelocityNew(linvel, angvel)

StateVelocity(s) ==
    LET linvel == LinMomDivMass(s.momentum.linear, s.mass.mass)
        angvel == AngMomDivInertia(s.momentum.angular, RotatedInvInertia(s))
    IN  VelocityNew(linvel, angvel)

----------------------------------------------------------------------------
(* panels: Panel *)

DENSITY == F64(Rat(1293, 1000))
HALF_C_D == RDiv(F64(Rat(128, 100)), R2)

\* The integer square root of n >= 0, by bisection of lo..hi.
RECURSIVE SqrtIn(_, _, _)
SqrtIn(n, lo, hi) ==
    IF lo >= hi THEN lo
    ELSE LET mid == (lo + hi + 1) \div 2
         IN  IF mid * mid <= n THEN SqrtIn(n, mid, hi) ELSE SqrtIn(n, lo, mid - 1)
ISqrt(n) == SqrtIn(n, 0, IF n < 46340 THEN n ELSE 46340)
IsSquare(n) == ISqrt(n) * ISqrt(n) = n
\* The vectors whose length is a rational number.
HasExactLength(v) == LET l2 == VDot(v, v) IN IsSquare(l2[1]) /\ IsSquare(l2[2])
\* f64::sqrt in floating-point arithmetic: the floating-point number nearest
\* to the square root of n / d > 0, ties to the even significand.
RECURSIVE SqrtPos(_, _)
SqrtPos(n, d) ==
    IF n >= d * 4^MantissaBits
    THEN (CHOOSE x \in {Rat(2 * r[1], r[2]) : r \in {SqrtPos(n, 4 * d)}} : TRUE)
    ELSE IF n < d * 4^(MantissaBits - 1)
    THEN (CHOOSE x \in {Rat(r[1], 2 * r[2]) : r \in {SqrtPos(4 * n, d)}} : TRUE)
    ELSE (CHOOSE x \in
            { IF 4 * n > d * (4 * m * m + 4 * m + 1)
                 \/ (4 * n = d * (4 * m * m + 4 * m + 1) /\ m % 2 = 1)
              THEN <<m + 1, 1>> ELSE <<m, 1>> : m \in {ISqrt(n \div d)} } : TRUE)

\* f64::sqrt of a value that is not negative.  In real arithmetic it is taken
\* only of squares of rationals.
RSqrt(x) ==
    IF x[1] = 0 \/ x[2] = 0 THEN x
    ELSE IF arith = "real" THEN <<ISqrt(x[1]), ISqrt(x[2])>>
    ELSE SqrtPos(x[1], x[2])

\* DVec3::length
VLength(v) == On1(VDot(v, v), LAMBDA l2 : RSqrt(l2))

\* DVec3::normalize_or_zero: v * (1 / length) when the reciprocal is finite and
\* positive, the zero vector otherwise.
NormalizeOrZero(v) ==
    On1(RRecip(VLength(v)), LAMBDA rcp :
        IF IsFinite(rcp) /\ RLt(R0, rcp) THEN VScale(v, rcp) ELSE VZero)

PanelNew(offset, normal, area) == [offset |-> offset, normal |-> normal, area |-> area]

\* A faulty variant of to_force: the whole area is exposed to every flow.
PanelToForceFullArea(p, rel_vel) ==
    LET area == p.area
        v_sq == VMulV(rel_vel, rel_vel)
    IN  VScale(VScale(VScale(VNeg(v_sq), DENSITY), HALF_C_D), area)

\* A faulty variant of to_force: the exposed area is taken without its sign.
PanelToForceUnsignedArea(p, rel_vel) ==
    LET dot == VDot(p.normal, NormalizeOrZero(rel_vel))
        area == RMul(IF RLt(dot, R0) THEN RNeg(dot) ELSE dot, p.area)
        v_sq == VMulV(rel_vel, rel_vel)
    IN  VScale(VScale(VScale(VNeg(v_sq), DENSITY), HALF_C_D), area)

PanelToForce(p, rel_vel) ==
    On1(rel_vel, LAMBDA v :
    On1(RMul(VDot(p.normal, NormalizeOrZero(v)), p.area), LAMBDA area :
    On1(VMulV(v, v), LAMBDA v_sq :
        VScale(VScale(VScale(VNeg(v_sq), DENSITY), HALF_C_D), area))))

\* A faulty variant of rotated: the rotation is applied without inverse().
PanelRotatedForward(p, rot) ==
    LET offset == QuatMulVec3(rot, p.offset)
        normal == QuatMulVec3(rot, p.normal)
    IN  PanelNew(offset, normal, p.area)

PanelRotated(p, rot) ==
    LET offset == QuatMulVec3(QuatInverse(rot), p.offset)
        normal == QuatMulVec3(QuatInverse(rot), p.normal)
    IN  PanelNew(offset, normal, p.area)

\* A faulty variant of rotation_based_velocity: the cross product without
\* the xzy swizzles.
PanelRotationBasedVelocityPlainCross(p, rot, vel) ==
    VCross(vel, PanelRotated(p, rot).offset)

PanelRotationBasedVelocity(p, rot, vel) ==
    On1(PanelRotated(p, rot).offset, LAMBDA offset :
        Xzy(VCross(Xzy(vel), Xzy(offset))))

PanelTipVelocity(p, rot, vel) ==
    On1(QuatMulVec3(rot, vel.linear), LAMBDA linear :
    On1(PanelRotationBasedVelocity(p, rot, vel.angular), LAMBDA angular :
        VAdd(linear, angular)))

\* The last line hands (rot * offset, force) to Moment::new(force, torque).
PanelToMoment(p, s) ==
    On1(s.transform.rotation, LAMBDA rot :
    On1(MomentumDivInertiaMass(s.momentum, s.mass), LAMBDA state_vel :
    On1(PanelTipVelocity(p, rot, state_vel), LAMBDA vel :
    On1(PanelToForce(p, vel), LAMBDA local_force :
    On1(QuatMulVec3(rot, local_force), LAMBDA force :
        MomentNew(QuatMulVec3(rot, p.offset), force))))))

----------------------------------------------------------------------------
(* State::simulation_step *)

\* An intermediate state: without_panels(s.mass, s.transform + k_dx * d,
\* s.momentum + k_dp * d).
StepAdvance(s, k_dx, k_dp, d) ==
    StateWithoutPanels(s.mass,
                       TransformAdd(s.transform, VelocityMulDur(k_dx, d)),
                       MomentumAdd(s.momentum, MomentMulDur(k_dp, d)))

\* The rotation k_dx * d is one that from_scaled_axis yields exactly.
StepRotationIsExact(k_dx, d) == IsAxisAngle(VScale(k_dx.angular, AsSecsF64(d)))

\* (k1 + k2 * 2.0 + k3 * 2.0 + k4) of the two final lines.
StepSumDx(l) ==
    VelocityAdd(VelocityAdd(VelocityAdd(l.k1_dx, VelocityMulF64(l.k2_dx, R2)),
                            VelocityMulF64(l.k3_dx, R2)), l.k4_dx)
StepSumDp(l) ==
    MomentAdd(MomentAdd(MomentAdd(l.k1_dp, MomentMulF64(l.k2_dp, R2)),
                        MomentMulF64(l.k3_dp, R2)), l.k4_dp)

\* Faulty variants of the two final writes: the stages weighted equally; the
\* momentum assigned where the code adds to it; the panel list dropped.
SimulationStepWriteEqualWeights(self, l) ==
    LET sum_dx == VelocityAdd(VelocityAdd(VelocityAdd(l.k1_dx, l.k2_dx), l.k3_dx), l.k4_dx)
        sum_dp == MomentAdd(MomentAdd(MomentAdd(l.k1_dp, l.k2_dp), l.k3_dp), l.k4_dp)
    IN  StateNew(self.mass,
                 TransformAdd(self.transform,
                              VelocityMulDur(sum_dx, DurationDiv(l.delta, 6))),
                 MomentumAdd(self.momentum,
                             MomentMulDur(sum_dp, DurationDiv(l.delta, 6))),
                 self.panels)
SimulationStepWriteAssignMomentum(self, l) ==
    StateNew(self.mass,
             TransformAdd(self.transform,
                          VelocityMulDur(StepSumDx(l), DurationDiv(l.delta, 6))),
             MomentMulDur(StepSumDp(l), DurationDiv(l.delta, 6)),
             self.panels)
SimulationStepWriteWithoutPanels(self, l) ==
    StateWithoutPanels(self.mass,
                       TransformAdd(self.transform,
                                    VelocityMulDur(StepSumDx(l), DurationDiv(l.delta, 6))),
                       MomentumAdd(self.momentum,
                                   MomentMulDur(StepSumDp(l), DurationDiv(l.delta, 6))))

\* The two writes to self that end the call.
SimulationStepWrite(self, l) ==
    StateNew(self.mass,
             TransformAdd(self.transform,
                          VelocityMulDur(StepSumDx(l), DurationDiv(l.delta, 6))),
             MomentumAdd(self.momentum,
                         MomentMulDur(StepSumDp(l), DurationDiv(l.delta, 6))),
             self.panels)

----------------------------------------------------------------------------
(* States on which simulation_step is called *)

HalfR == <<1, 2>>
\* A third of a turn about (1, 1, 1) and a half turn about x.
QuatThirdTurn == Quat(HalfR, HalfR, HalfR, HalfR)
QuatHalfTurnX == Quat(R1, R0, R0, R0)

\* A symmetric tensor with products of inertia.
InertiaSkew == MatCols(VecI(2, 1, 0), VecI(1, 1, 0), VecI(0, 0, 1))

StepMasses ==
    { InertiaMassNew(R2, InertiaCylinderX(R1, R1, R1)),
      InertiaMassNew(R2, InertiaSkew) }
StepTransforms ==
    { TransformZERO, TransformNew(VecI(1, 0, -1), QuatThirdTurn) }
StepMomenta ==
    { MomentumNew(lin, ang) :
        lin \in {VecI(2, 0, 0)},
        ang \in {VZero, VecI(0, 0, TicksPerSec)} }
StepPanels ==
    { <<>>,
      <<PanelNew(VZero, VX, R1), PanelNew(VX, VY, R2)>> }
StepMoments ==
    { MomentZERO,
      MomentNew(VecI(1, 0, 0), VecI(0, 0, TicksPerSec * TicksPerSec)) }

NoLocals == [delta |-> 0]
NoCall == [op |-> "none"]

\* The state of mass 1 and inertia cylinder_x(1, 1, 1) that turns about x, at
\* the identity transform, with one panel at X of normal Y and area 1 (the
\* angular velocity is 1, in the model's half turns per second).
StepScenario ==
    StateNew(InertiaMassNew(R1, InertiaCylinderX(R1, R1, R1)), TransformZERO,
             MomentumNew(VZero, <<HalfR, R0, R0>>), <<PanelNew(VX, VY, R1)>>)

Init ==
    /\ arith = "real"
    /\ state \in { StateNew(m, t, p, ps) :
                     m \in StepMasses, t \in StepTransforms,
                     p \in StepMomenta, ps \in StepPanels } \cup { StepScenario }
    /\ imass = state.mass
    /\ rk = NoLocals
    /\ steps = 0
    /\ hist = [init |-> state, zero_moments |-> TRUE]
    /\ ret = NoCall

\* One call of simulation_step: its locals are bound in the order the code
\* computes them, then self is written.
SimulationStep(delta, moment) ==
    /\ steps < MaxSteps
    /\ \E half_delta \in {DurationDiv(delta, 2)} :
       \E k1_dx \in {StateVelocity(state)}, k1_dp \in {moment} :
         /\ StepRotationIsExact(k1_dx, delta)
         /\ \E int2 \in {StepAdvance(state, k1_dx, k1_dp, delta)} :
            \E k2_dx \in {StateVelocity(int2)}, k2_dp \in {moment} :
              /\ StepRotationIsExact(k2_dx, half_delta)
              /\ \E int3 \in {StepAdvance(int2, k2_dx, k2_dp, half_delta)} :
                 \E k3_dx \in {StateVelocity(int3)}, k3_dp \in {moment} :
                   /\ StepRotationIsExact(k3_dx, half_delta)
                   /\ \E int4 \in {StepAdvance(int3, k3_dx, k3_dp, half_delta)} :
                      \E k4_dx \in {StateVelocity(int4)}, k4_dp \in {moment} :
                      \E l \in {[delta |-> delta, moment |-> moment,
                                 half_delta |-> half_delta, int1 |-> state,
                                 int2 |-> int2, int3 |-> int3, int4 |-> int4,
                                 k1_dx |-> k1_dx, k2_dx |-> k2_dx,
                                 k3_dx |-> k3_dx, k4_dx |-> k4_dx,
                                 k1_dp |-> k1_dp, k2_dp |-> k2_dp,
                                 k3_dp |-> k3_dp, k4_dp |-> k4_dp]} :
                        /\ StepRotationIsExact(StepSumDx(l), DurationDiv(delta, 6))
                        /\ rk' = l
                        /\ state' = SimulationStepWrite(state, l)
    /\ steps' = steps + 1
    /\ hist' = [hist EXCEPT !.zero_moments = @ /\ moment = MomentZERO]
    /\ ret' = [op |-> "simulation_step"]
    /\ UNCHANGED <<arith, imass>>

Next == \E delta \in 0..MaxDelta, moment \in StepMoments : SimulationStep(delta, moment)

Spec == Init /\ [][Next]_vars

----------------------------------------------------------------------------
(* State::simulation_step on two entities *)

\* The locals of self.simulation_step(delta, moment), in the order the code
\* computes them.
SimulationStepLocals(self, delta, moment) ==
    On1(DurationDiv(delta, 2), LAMBDA half_delta :
    On1(StateVelocity(self), LAMBDA k1_dx :
    On1(StepAdvance(self, k1_dx, moment, delta), LAMBDA int2 :
    On1(StateVelocity(int2), LAMBDA k2_dx :
    On1(StepAdvance(int2, k2_dx, moment, half_delta), LAMBDA int3 :
    On1(StateVelocity(int3), LAMBDA k3_dx :
    On1(StepAdvance(int3, k3_dx, moment, half_delta), LAMBDA int4 :
    On1(StateVelocity(int4), LAMBDA k4_dx :
        [delta |-> delta, moment |-> moment, half_delta |-> half_delta,
         int1 |-> self, int2 |-> int2, int3 |-> int3, int4 |-> int4,
         k1_dx |-> k1_dx, k2_dx |-> k2_dx, k3_dx |-> k3_dx, k4_dx |-> k4_dx,
         k1_dp |-> moment, k2_dp |-> moment, k3_dp |-> moment,
         k4_dp |-> moment]))))))))

\* Every rotation of the call is one that from_scaled_axis yields exactly.
StepIsExact(l) ==
    /\ StepRotationIsExact(l.k1_dx, l.delta)
    /\ StepRotationIsExact(l.k2_dx, l.half_delta)
    /\ StepRotationIsExact(l.k3_dx, l.half_delta)
    /\ StepRotationIsExact(StepSumDx(l), DurationDiv(l.delta, 6))

\* self after self.simulation_step(delta, moment).
SimulationStepResult(self, delta, moment) ==
    On1(SimulationStepLocals(self, delta, moment),
        LAMBDA l : SimulationStepWrite(self, l))

Entities == {"A", "B"}

\* A faulty variant of the write through &mut self: the State is shared by
\* the entities.
EntityWriteShared(states, e, new) == [x \in DOMAIN states |-> new]

\* The write through &mut self: the State of entity e, and no other.
EntityWrite(states, e, new) == [states EXCEPT ![e] = new]

\* The steps an entity is to make, in order: (delta, moment) of each call.
PlanSteps ==
    { <<4, MomentZERO>>,
      <<MaxDelta, MomentNew(VecI(1, 0, 0), VecI(0, 0, TicksPerSec * TicksPerSec))>> }
Plans == [1..MaxSteps -> PlanSteps]

PairStates ==
    { StateNew(m, t, p, <<>>) :
        m \in StepMasses, t \in {TransformZERO},
        p \in {MomentumNew(VecI(2, 0, 0), VecI(0, 0, TicksPerSec))} }

PairOther ==
    StateNew(InertiaMassNew(R1, InertiaSkew), TransformNew(VecI(0, 1, 0), QuatIdentity),
             MomentumNew(VecI(0, 0, 1), VZero), <<PanelNew(VX, VY, R1)>>)

InitPair ==
    /\ arith = "real"
    /\ state \in { [e \in Entities |-> IF e = "A" THEN a ELSE PairOther] :
                      a \in PairStates }
    /\ imass = state["A"].mass
    /\ rk = NoLocals
    /\ steps = [e \in Entities |-> 0]
    /\ hist \in { [init |-> state, plan |-> plan] : plan \in [Entities -> Plans] }
    /\ ret = NoCall

\* The next simulation_step of entity e.
StepEntity(e) ==
    /\ steps[e] < MaxSteps
    /\ \E call \in {hist.plan[e][steps[e] + 1]} :
       \E l \in {SimulationStepLocals(state[e], call[1], call[2])} :
          /\ StepIsExact(l)
          /\ rk' = l
          /\ state' = EntityWrite(state, e, SimulationStepWrite(state[e], l))
    /\ steps' = [steps EXCEPT ![e] = @ + 1]
    /\ ret' = [op |-> "simulation_step", entity |-> e]
    /\ UNCHANGED <<arith, imass, hist>>

NextPair == \E e \in Entities : StepEntity(e)

SpecPair == InitPair /\ [][NextPair]_vars

----------------------------------------------------------------------------
(* StateBuilder *)

None == [some |-> FALSE]
Some(x) == [some |-> TRUE, val |-> x]
UnwrapOr(o, default) == IF o.some THEN o.val ELSE default

StateBuilderNew ==
    [mass |-> None, transform |-> None, momentum |-> None, panels |-> <<>>]

StateBuilderMass(self, mass) == [self EXCEPT !.mass = Some(mass)]
StateBuilderTransform(self, transform) ==
    [self EXCEPT !.transform = Some(transform)]
StateBuilderMomentum(self, momentum) ==
    [self EXCEPT !.momentum = Some(momentum)]

StateBuilderAddPanel(self, panel) ==
    [self EXCEPT !.panels = Append(@, panel)]

\* A faulty variant of add_panels: the panels replace those of the builder.
StateBuilderAddPanelsReplacing(self, panels) == [self EXCEPT !.panels = panels]

StateBuilderAddPanels(self, panels) == [self EXCEPT !.panels = @ \o panels]

StateBuilderPanels(self, panels) == [self EXCEPT !.panels = panels]

\* A faulty variant of build: every Option is unwrapped with expect.
StateBuilderBuildExpectAll(self) ==
    IF ~self.mass.some \/ ~self.transform.some \/ ~self.momentum.some
    THEN [panicked |-> TRUE]
    ELSE [panicked |-> FALSE,
          val |-> [mass |-> self.mass.val, transform |-> self.transform.val,
                   momentum |-> self.momentum.val, panels |-> self.panels]]

\* build: expect on the mass panics on None.
StateBuilderBuild(self) ==
    IF ~self.mass.some
    THEN [panicked |-> TRUE]
    ELSE [panicked |-> FALSE,
          val |-> [mass |-> self.mass.val,
                   transform |-> UnwrapOr(self.transform, TransformZERO),
                   momentum |-> UnwrapOr(self.momentum, MomentumZERO),
                   panels |-> self.panels]]

BuilderMasses ==
    { InertiaMassNew(R2, InertiaCylinderX(R1, R1, R1)),
      InertiaMassNew(R1, InertiaSkew) }
BuilderTransforms ==
    { TransformNew(VecI(1, 0, -1), QuatThirdTurn),
      TransformNew(VecI(0, 2, 0), QuatIdentity) }
BuilderMomenta == { MomentumNew(VecI(2, 0, 0), <<HalfR, R0, R0>>) }
BuilderPanel == { PanelNew(VX, VY, R1) }
BuilderPanelLists ==
    { <<>>, <<PanelNew(VecI(0, -1, 0), VX, R2), PanelNew(VX, VY, R1)>> }
BuilderAddedLists ==
    { <<PanelNew(VecI(0, 0, 1), VX, R1), PanelNew(VecI(0, 0, 1), VX, R1)>> }

InitBuilder ==
    /\ arith = "real"
    /\ state = StateBuilderNew
    /\ imass = InertiaMassNew(R1, InertiaSkew)
    /\ rk = NoLocals
    /\ steps = 0
    /\ hist = [calls |-> <<>>]
    /\ ret = NoCall

\* The methods that take the builder and return it.
BuilderMass(mass) ==
    /\ ret.op # "build"
    /\ steps < MaxBuilderCalls
    /\ state' = StateBuilderMass(state, mass)
    /\ steps' = steps + 1
    /\ hist' = [hist EXCEPT !.calls = Append(@, [op |-> "mass", arg |-> mass])]
    /\ ret' = [op |-> "mass", arg |-> mass]
    /\ UNCHANGED <<arith, imass, rk>>

BuilderTransform(transform) ==
    /\ ret.op # "build"
    /\ steps < MaxBuilderCalls
    /\ state' = StateBuilderTransform(state, transform)
    /\ steps' = steps + 1
    /\ hist' = [hist EXCEPT !.calls = Append(@, [op |-> "transform", arg |-> transform])]
    /\ ret' = [op |-> "transform", arg |-> transform]
    /\ UNCHANGED <<arith, imass, rk>>

BuilderMomentum(momentum) ==
    /\ ret.op # "build"
    /\ steps < MaxBuilderCalls
    /\ state' = StateBuilderMomentum(state, momentum)
    /\ steps' = steps + 1
    /\ hist' = [hist EXCEPT !.calls = Append(@, [op |-> "momentum", arg |-> momentum])]
    /\ ret' = [op |-> "momentum", arg |-> momentum]
    /\ UNCHANGED <<arith, imass, rk>>

BuilderAddPanel(panel) ==
    /\ ret.op # "build"
    /\ steps < MaxBuilderCalls
    /\ state' = StateBuilderAddPanel(state, panel)
    /\ steps' = steps + 1
    /\ hist' = [hist EXCEPT !.calls = Append(@, [op |-> "add_panel", arg |-> panel])]
    /\ ret' = [op |-> "add_panel", arg |-> panel]
    /\ UNCHANGED <<arith, imass, rk>>

BuilderAddPanels(panels) ==
    /\ ret.op # "build"
    /\ steps < MaxBuilderCalls
    /\ state' = StateBuilderAddPanels(state, panels)
    /\ steps' = steps + 1
    /\ hist' = [hist EXCEPT !.calls = Append(@, [op |-> "add_panels", arg |-> panels])]
    /\ ret' = [op |-> "add_panels", arg |-> panels]
    /\ UNCHANGED <<arith, imass, rk>>

BuilderPanels(panels) ==
    /\ ret.op # "build"
    /\ steps < MaxBuilderCalls
    /\ state' = StateBuilderPanels(state, panels)
    /\ steps' = steps + 1
    /\ hist' = [hist EXCEPT !.calls = Append(@, [op |-> "panels", arg |-> panels])]
    /\ ret' = [op |-> "panels", arg |-> panels]
    /\ UNCHANGED <<arith, imass, rk>>

\* build takes the builder by value: no call follows it.
BuilderBuild ==
    /\ ret.op # "build"
    /\ \E r \in {StateBuilderBuild(state)} :
          ret' = [op |-> "build", panicked |-> r.panicked,
                  val |-> IF r.panicked THEN None ELSE Some(r.val)]
    /\ UNCHANGED <<arith, state, imass, rk, steps, hist>>

NextBuilder ==
    \/ \E mass \in BuilderMasses : BuilderMass(mass)
    \/ \E transform \in BuilderTransforms : BuilderTransform(transform)
    \/ \E momentum \in BuilderMomenta : BuilderMomentum(momentum)
    \/ \E panel \in BuilderPanel : BuilderAddPanel(panel)
    \/ \E panels \in BuilderAddedLists : BuilderAddPanels(panels)
    \/ \E panels \in BuilderPanelLists : BuilderPanels(panels)
    \/ BuilderBuild

SpecBuilder == InitBuilder /\ [][NextBuilder]_vars

----------------------------------------------------------------------------
(* States on which the getters are called *)

\* The 24 unit quaternions with all components in {0, 1, -1} or in {1/2, -1/2}.
HurwitzUnits ==
    { Quat(<<a, 2>>, <<b, 2>>, <<c, 2>>, <<d, 2>>) : a, b, c, d \in {-1, 1} }
    \cup { Quat(Int2R(a), R0, R0, R0) : a \in {-1, 1} }
    \cup { Quat(R0, Int2R(a), R0, R0) : a \in {-1, 1} }
    \cup { Quat(R0, R0, Int2R(a), R0) : a \in {-1, 1} }
    \cup { Quat(R0, R0, R0, Int2R(a)) : a \in {-1, 1} }

Ariths == {"real", "float"}

QueryInertias ==
    { InertiaCylinderX(R2, R1, Int2R(3)), InertiaSkew,
      MatDiag(Int2R(3), Int2R(7), Int2R(6)) }
QueryMasses == { InertiaMassNew(m, i) : m \in {R1, Int2R(3)}, i \in QueryInertias }
QueryMomenta ==
    { MomentumNew(VecI(7, 0, -1), VecI(1, 2, 3)),
      MomentumNew(VecI(0, 5, 0), VecI(0, 0, 1)) }

InitQuery ==
    /\ arith \in Ariths
    /\ state \in { StateNew(m, TransformNew(VecI(1, 0, -1), q), p, <<>>) :
                     m \in QueryMasses, q \in HurwitzUnits, p \in QueryMomenta }
    /\ imass = state.mass
    /\ rk = NoLocals
    /\ steps = 0
    /\ hist = [init |-> state, zero_moments |-> TRUE]
    /\ ret = NoCall

Velocity ==
    /\ ret' = [op |-> "velocity", val |-> StateVelocity(state)]
    /\ UNCHANGED <<arith, state, imass, rk, steps, hist>>

GetRotatedMass ==
    /\ ret' = [op |-> "rotated_mass", val |-> RotatedMass(state)]
    /\ UNCHANGED <<arith, state, imass, rk, steps, hist>>

GetRotatedInertia ==
    /\ ret' = [op |-> "rotated_inertia", val |-> RotatedInertia(state)]
    /\ UNCHANGED <<arith, state, imass, rk, steps, hist>>

GetRotatedInvInertia ==
    /\ ret' = [op |-> "rotated_inv_inertia", val |-> RotatedInvInertia(state)]
    /\ UNCHANGED <<arith, state, imass, rk, steps, hist>>

NextQuery ==
    \/ Velocity
    \/ GetRotatedMass
    \/ GetRotatedInertia
    \/ GetRotatedInvInertia

SpecQuery == InitQuery /\ [][NextQuery]_vars

----------------------------------------------------------------------------
(* InertiaMass values and the rotations applied to them *)

\* Quarter turns about z and about x.
MatQuarterTurnZ == MatCols(VY, VecI(-1, 0, 0), VZ)
MatQuarterTurnX == MatCols(VX, VZ, VecI(0, -1, 0))
RotationMatrices ==
    { MatQuarterTurnZ, MatQuarterTurnX } \cup { MatFromQuat(q) : q \in HurwitzUnits }

InitMass ==
    /\ arith \in Ariths
    /\ imass \in QueryMasses
    /\ state = StateNew(imass, TransformZERO, MomentumZERO, <<>>)
    /\ rk = NoLocals
    /\ steps = 0
    /\ hist = [init |-> state, zero_moments |-> TRUE]
    /\ ret = NoCall

Rotated(rot) ==
    /\ steps < MaxRotations
    /\ imass' = InertiaMassRotated(imass, rot)
    /\ steps' = steps + 1
    /\ ret' = [op |-> "rotated"]
    /\ UNCHANGED <<arith, state, rk, hist>>

RotMat(rot) ==
    /\ steps < MaxRotations
    /\ imass' = InertiaMassRotMat(imass, rot)
    /\ steps' = steps + 1
    /\ ret' = [op |-> "rot_mat"]
    /\ UNCHANGED <<arith, state, rk, hist>>

NextMass ==
    \/ \E rot \in HurwitzUnits : Rotated(rot)
    \/ \E rot \in RotationMatrices : RotMat(rot)

SpecMass == InitMass /\ [][NextMass]_vars

----------------------------------------------------------------------------
(* Construction: Mass::new, InertiaMass::new, State::without_panels *)

MassNew(mass) == mass
MassZERO == MassNew(R0)

\* A symmetric tensor of determinant zero.
InertiaSingular == MatCols(VecI(1, 2, 0), VecI(2, 4, 0), VecI(0, 0, 1))

NewMasses == { MassNew(Int2R(-1)), MassZERO, MassNew(R2) }
NewInertias == { InertiaSingular, InertiaSkew }
NewMomenta ==
    { MomentumNew(VecI(2, 0, 0), VZero), MomentumNew(VZero, VecI(0, 0, TicksPerSec)) }

MatIsFinite(m) == \A i \in 1..3, j \in 1..3 : IsFinite(m[i][j])
VecIsFinite(v) == \A i \in 1..3 : IsFinite(v[i])

InitNew ==
    /\ arith \in Ariths
    /\ imass = InertiaMassNew(MassNew(R1), InertiaSkew)
    /\ state = StateWithoutPanels(imass, TransformZERO, MomentumZERO)
    /\ rk = NoLocals
    /\ steps = 0
    /\ hist = [init |-> state, zero_moments |-> TRUE]
    /\ ret = NoCall

\* InertiaMass::new.  DMat3::inverse asserts a nonzero determinant only in a
\* build that has glam's assertions compiled in (glam_assert); in every other
\* build it multiplies by the reciprocal of the determinant whatever it is.
New(mass, inertia, glam_assert) ==
    /\ IF glam_assert /\ MatDeterminant(inertia) = R0
       THEN /\ ret' = [op |-> "new", panicked |-> TRUE,
                       mass |-> mass, inertia |-> inertia]
            /\ UNCHANGED imass
       ELSE /\ imass' = InertiaMassNew(mass, inertia)
            /\ ret' = [op |-> "new", panicked |-> FALSE,
                       mass |-> mass, inertia |-> inertia,
                       val |-> InertiaMassNew(mass, inertia)]
    /\ UNCHANGED <<arith, state, rk, steps, hist>>

\* State::without_panels on the InertiaMass last constructed.
WithoutPanels(transform, momentum) ==
    /\ state' = StateWithoutPanels(imass, transform, momentum)
    /\ hist' = [init |-> state', zero_moments |-> TRUE]
    /\ rk' = NoLocals
    /\ steps' = 0
    /\ ret' = [op |-> "without_panels"]
    /\ UNCHANGED <<arith, imass>>

NextNew ==
    \/ \E mass \in NewMasses, inertia \in NewInertias, glam_assert \in BOOLEAN :
         New(mass, inertia, glam_assert)
    \/ \E momentum \in NewMomenta : WithoutPanels(TransformZERO, momentum)
    \/ Velocity
    \/ \E delta \in {MaxDelta}, moment \in {MomentZERO} : SimulationStep(delta, moment)

SpecNew == InitNew /\ [][NextNew]_vars

----------------------------------------------------------------------------
(* The operators of Rotation and Transform, applied to the state's transform *)

\* A rotation by 2 * atan(3/4) about x, each component an f64, and a quaternion
\* that is not normalised.
QuatThreeFourFive == Quat(F64(Rat(3, 5)), R0, R0, F64(Rat(4, 5)))
QuatNotUnit == Quat(R1, R0, R0, R1)
OpQuats == { QuatThirdTurn, QuatThreeFourFive, QuatNotUnit }
OpTransforms ==
    { TransformZERO,
      TransformNew(VecI(1, 0, -1), QuatThirdTurn),
      TransformNew(VecI(0, 2, 0), QuatThreeFourFive) }

\* The quaternions of length exactly one.
IsUnitQuat(q) ==
    LET Sq(i) == Rat(q[i][1] * q[i][1], q[i][2] * q[i][2])
        Sum(a, b) == LET g == GCD(a[2], b[2])
                     IN  Rat(a[1] * (b[2] \div g) + b[1] * (a[2] \div g),
                             a[2] * (b[2] \div g))
    IN  /\ \A i \in 1..4 : IsFinite(q[i])
        /\ Sum(Sum(Sq(1), Sq(2)), Sum(Sq(3), Sq(4))) = R1

InitOps ==
    /\ arith \in Ariths
    /\ state \in { StateWithoutPanels(InertiaMassNew(MassNew(R1), InertiaSkew),
                                      t, MomentumZERO) : t \in OpTransforms }
    /\ imass = state.mass
    /\ rk = NoLocals
    /\ steps = 0
    /\ hist = [init |-> state, zero_moments |-> TRUE]
    /\ ret = NoCall

\* a + b, a - b on a = the state's transform (or its rotation); the by-value
\* and by-reference forms are expansions of one body.
Binary(op, a, b, val) ==
    /\ ret' = [op |-> op, a |-> a, b |-> b, val |-> val]
    /\ UNCHANGED <<arith, state, imass, rk, steps, hist>>

AddRotation(b) ==
    Binary("rotation_add", state.transform.rotation, b,
           RotationAdd(state.transform.rotation, b))
SubRotation(b) ==
    Binary("rotation_sub", state.transform.rotation, b,
           RotationSub(state.transform.rotation, b))
AddTransform(b) ==
    Binary("transform_add", state.transform, b, TransformAdd(state.transform, b))
SubTransform(b) ==
    Binary("transform_sub", state.transform, b, TransformSub(state.transform, b))

\* a += b, a -= b on a = the state's transform (or its rotation).
Assign(op, a, b, transform) ==
    /\ steps < MaxAssigns
    /\ state' = [state EXCEPT !.transform = transform]
    /\ steps' = steps + 1
    /\ ret' = [op |-> op, a |-> a, b |-> b]
    /\ UNCHANGED <<arith, imass, rk, hist>>

AddAssignRotation(b) ==
    Assign("rotation_add_assign", state.transform.rotation, b,
           [state.transform EXCEPT !.rotation = RotationAddAssign(@, b)])
SubAssignRotation(b) ==
    Assign("rotation_sub_assign", state.transform.rotation, b,
           [state.transform EXCEPT !.rotation = RotationSubAssign(@, b)])
AddAssignTransform(b) ==
    Assign("transform_add_assign", state.transform, b,
           TransformAddAssign(state.transform, b))
SubAssignTransform(b) ==
    Assign("transform_sub_assign", state.transform, b,
           TransformSubAssign(state.transform, b))

NextOps ==
    \/ \E b \in OpQuats : AddRotation(b)
    \/ \E b \in OpQuats : SubRotation(b)
    \/ \E b \in OpQuats : AddAssignRotation(b)
    \/ \E b \in OpQuats : SubAssignRotation(b)
    \/ \E b \in OpTransforms : AddTransform(b)
    \/ \E b \in OpTransforms : SubTransform(b)
    \/ \E b \in OpTransforms : AddAssignTransform(b)
    \/ \E b \in OpTransforms : SubAssignTransform(b)

SpecOps == InitOps /\ [][NextOps]_vars

----------------------------------------------------------------------------
(* panels: Panel::to_force and Panel::rotated *)

\* test_utils::xyz_panels
XyzPanels == { PanelNew(VX, VX, R1), PanelNew(VY, VY, R1), PanelNew(VZ, VZ, R1) }

\* test_utils::xyz_neg_panels
XyzNegPanels ==
    { PanelNew(VNeg(VX), VX, R1), PanelNew(VNeg(VY), VY, R1), PanelNew(VNeg(VZ), VZ, R1) }

PanelInputs ==
    XyzPanels \cup XyzNegPanels \cup
    { PanelNew(VZero, VX, R1),
      PanelNew(VecI(0, 2, 0), VX, R1),
      PanelNew(VecI(1, 0, 2), VecI(4, -3, 0), R2),
      PanelNew(VecI(0, -1, 0), VecI(1, 1, 1), R1) }

PanelVelocities ==
    { VZero, VX, VecI(-2, 0, 0), <<HalfR, R0, R0>>, VY, VecI(0, 0, -1),
      VecI(3, 4, 0), VecI(0, 3, 4), VecI(2, 1, 2), VecI(1, -3, 2) }

\* (angle * 0.5).sin_cos() of from_rotation_x/y/z at angle = PI / 2: each of
\* the two is one of the two floating-point neighbours of sqrt(1/2); which
\* one is up to the build's sin and cos.
SinCosQuarterPi ==
    LET near == RSqrt(HalfR)
        ulp == Rat(1, 2^MantissaBits)
    IN  { near,
          IF 2 * near[1] * near[1] > near[2] * near[2]
          THEN RSub(near, ulp) ELSE RAdd(near, ulp) }

\* DQuat::from_rotation_x, _y, _z at the quarter turn.
QuatFromRotationQuarter(axis, s, c) ==
    Quat(RMul(axis[1], s), RMul(axis[2], s), RMul(axis[3], s), c)

\* test_utils::quarter_rotations, about the axis given.
QuarterRotations(axis) ==
    { QuatFromRotationQuarter(axis, s, c) : s \in SinCosQuarterPi, c \in SinCosQuarterPi }

\* The rotations handed to rotated: the quarter turns exist as floating-point
\* values only.
PanelRotations ==
    { QuatIdentity, QuatThirdTurn, QuatInverse(QuatThirdTurn) } \cup
    (IF arith = "float"
     THEN QuarterRotations(VX) \cup QuarterRotations(VY) \cup QuarterRotations(VZ)
     ELSE {})

InitPanel ==
    /\ arith \in Ariths
    /\ state \in { StateNew(InertiaMassNew(MassNew(R1), InertiaSkew), TransformZERO,
                            MomentumZERO, <<p>>) : p \in PanelInputs }
    /\ imass = state.mass
    /\ rk = NoLocals
    /\ steps = 0
    /\ hist = [init |-> state, zero_moments |-> TRUE]
    /\ ret = NoCall

\* The methods of Panel take &self and leave the panel and the state as they
\* are: a behaviour is one call on the initial state.

\* panel.to_force(&rel_vel) on the state's panel.  In real arithmetic the
\* length of rel_vel is a rational number.
ToForce(rel_vel) ==
    /\ ret = NoCall
    /\ arith = "real" => HasExactLength(rel_vel)
    /\ \E val \in {PanelToForce(state.panels[1], rel_vel)} :
          ret' = [op |-> "panel_to_force", panel |-> state.panels[1],
                  rel_vel |-> rel_vel, val |-> val]
    /\ steps' = steps + 1
    /\ UNCHANGED <<arith, state, imass, rk, hist>>

\* panel.rotated(&rot) on the state's panel.
RotatedPanel(rot) ==
    /\ ret = NoCall
    /\ \E val \in {PanelRotated(state.panels[1], rot)} :
          ret' = [op |-> "panel_rotated", panel |-> state.panels[1],
                  rot |-> rot, val |-> val]
    /\ steps' = steps + 1
    /\ UNCHANGED <<arith, state, imass, rk, hist>>

\* test_utils::xyz_angvel, their negations and AngVel::ZERO
PanelAngVels ==
    { VZero, VX, VY, VZ, VNeg(VX), VNeg(VY), VNeg(VZ) }

\* The rotations handed to rotation_based_velocity and tip_velocity.
TipRotations == { QuatIdentity, QuatThirdTurn, QuatHalfTurnX }

\* The velocities handed to tip_velocity.
TipVelocities ==
    { VelocityNew(lin, ang) : lin \in {VX, VecI(0, 2, 0)},
                              ang \in {VZero, VY, VecI(0, 0, -1)} }

\* panel.rotation_based_velocity(&rot, &vel) on the state's panel.
RotationBasedVelocity(rot, vel) ==
    /\ ret = NoCall
    /\ \E val \in {PanelRotationBasedVelocity(state.panels[1], rot, vel)} :
          ret' = [op |-> "panel_rotation_based_velocity", panel |-> state.panels[1],
                  rot |-> rot, vel |-> vel, val |-> val]
    /\ steps' = steps + 1
    /\ UNCHANGED <<arith, state, imass, rk, hist>>

\* panel.tip_velocity(&rot, &vel) on the state's panel.
TipVelocity(rot, vel) ==
    /\ ret = NoCall
    /\ \E val \in {PanelTipVelocity(state.panels[1], rot, vel)} :
          ret' = [op |-> "panel_tip_velocity", panel |-> state.panels[1],
                  rot |-> rot, vel |-> vel, val |-> val]
    /\ steps' = steps + 1
    /\ UNCHANGED <<arith, state, imass, rk, hist>>

\* The masses, transforms and momenta of the states handed to to_moment.
MomentMasses ==
    { InertiaMassNew(MassNew(R1), InertiaCylinderX(R1, R1, R1)),
      InertiaMassNew(MassNew(R1), InertiaSkew) }
MomentMomenta ==
    { MomentumZERO, MomentumNew(VX, VZero), MomentumNew(VZero, <<HalfR, R0, R0>>),
      MomentumNew(VZero, <<R0, R0, HalfR>>), MomentumNew(VY, <<R0, R0, HalfR>>) }

\* panel.to_moment(&s) on the state's panel, s the state with the mass, the
\* rotation and the momentum given; rot, vel and force are the locals of the
\* call, tip_offset the offset used by rotation_based_velocity and lever the
\* first argument of Moment::new.  In real arithmetic the length of the tip
\* velocity is a rational number.
ToMoment(mass, rot, momentum) ==
    /\ ret = NoCall
    /\ \E s \in {[state EXCEPT !.mass = mass, !.transform.rotation = rot,
                                 !.momentum = momentum]} :
       \E p \in {s.panels[1]} :
       \E vel \in {MomentumDivInertiaMass(s.momentum, s.mass)} :
       \E tip \in {PanelTipVelocity(p, rot, vel)} :
          /\ arith = "real" => HasExactLength(tip)
          /\ \E local_force \in {PanelToForce(p, tip)} :
             \E val \in {PanelToMoment(p, s)} :
                ret' = [op |-> "panel_to_moment", panel |-> p, state |-> s,
                        rot |-> rot, vel |-> vel, tip |-> tip,
                        tip_offset |-> PanelRotated(p, rot).offset,
                        lever |-> QuatMulVec3(rot, p.offset),
                        force |-> QuatMulVec3(rot, local_force),
                        val |-> val]
    /\ steps' = steps + 1
    /\ UNCHANGED <<arith, state, imass, rk, hist>>

\* The rotations of the round trips: of unit length in real arithmetic, and
\* as floating-point values the nearest ones.
RoundTripRotations ==
    { QuatIdentity, QuatThirdTurn, QuatHalfTurnX, QuatThreeFourFive }

\* panel.rotated(&rot).rotated(&rot.inverse()) on the state's panel and
\* mass.rotated(rot).rotated(rot.inverse()) on the InertiaMass given.
RotatedBack(mass, rot) ==
    /\ ret = NoCall
    /\ \E panel_val \in {PanelRotated(PanelRotated(state.panels[1], rot),
                                      QuatInverse(rot))} :
       \E mass_val \in {InertiaMassRotated(InertiaMassRotated(mass, rot),
                                           QuatInverse(rot))} :
          ret' = [op |-> "rotated_back", panel |-> state.panels[1], mass |-> mass,
                  rot |-> rot, panel_val |-> panel_val, mass_val |-> mass_val]
    /\ steps' = steps + 1
    /\ UNCHANGED <<arith, state, imass, rk, hist>>

NextPanel ==
    \/ \E rel_vel \in PanelVelocities : ToForce(rel_vel)
    \/ \E rot \in PanelRotations : RotatedPanel(rot)
    \/ \E rot \in TipRotations, vel \in PanelAngVels : RotationBasedVelocity(rot, vel)
    \/ \E rot \in TipRotations, vel \in TipVelocities : TipVelocity(rot, vel)
    \/ \E mass \in MomentMasses, rot \in TipRotations, momentum \in MomentMomenta :
          ToMoment(mass, rot, momentum)
    \/ \E mass \in MomentMasses, rot \in RoundTripRotations : RotatedBack(mass, rot)

SpecPanel == InitPanel /\ [][NextPanel]_vars

----------------------------------------------------------------------------
(* State::simulation_step: the stages *)

\* total_moment(state) of the specification: the external moment plus the sum
\* of panel.to_moment(state) over the panels.
RECURSIVE TotalMoment(_, _, _)
TotalMoment(s, panels, external_moment) ==
    IF panels = <<>> THEN external_moment
    ELSE MomentAdd(TotalMoment(s, SubSeq(panels, 1, Len(panels) - 1), external_moment),
                   PanelToMoment(panels[Len(panels)], s))

\* The tip velocity of every panel on state s has a rational length.
TipVelocityIsExact(s, panels) ==
    \A i \in 1..Len(panels) :
        HasExactLength(PanelTipVelocity(panels[i], s.transform.rotation,
                                        MomentumDivInertiaMass(s.momentum, s.mass)))

\* C1 (as stated): after a call, the momentum derivative of each of the four
\* stages is the external moment plus the sum over the state's panels of
\* panel.to_moment(that stage's state).  Stages whose panel tip velocity has an
\* irrational length are left out.
C1_StageMomentIsTotalMoment ==
    ret.op = "simulation_step" =>
        \A i \in 1..4 :
            LET s == <<rk.int1, rk.int2, rk.int3, rk.int4>>[i]
                k_dp == <<rk.k1_dp, rk.k2_dp, rk.k3_dp, rk.k4_dp>>[i]
            IN  TipVelocityIsExact(s, rk.int1.panels) =>
                    k_dp = TotalMoment(s, rk.int1.panels, rk.moment)

\* C2 (as stated): after a call, every intermediate state is the initial state
\* advanced by the previous stage's derivative: over delta/2 for the second and
\* third stage, over the full delta for the fourth.
C2_IntermediateFromInitial ==
    ret.op = "simulation_step" =>
        LET FromInitial(int, k_dx, k_dp, d) ==
                StepRotationIsExact(k_dx, d) =>
                    /\ int.transform = TransformAdd(rk.int1.transform, VelocityMulDur(k_dx, d))
                    /\ int.momentum = MomentumAdd(rk.int1.momentum, MomentMulDur(k_dp, d))
        IN  /\ FromInitial(rk.int2, rk.k1_dx, rk.k1_dp, rk.half_delta)
            /\ FromInitial(rk.int3, rk.k2_dx, rk.k2_dp, rk.half_delta)
            /\ FromInitial(rk.int4, rk.k3_dx, rk.k3_dp, rk.delta)

----------------------------------------------------------------------------
(* State::simulation_step: the final update *)

\* C3: every call adds (k1_dx + 2 k2_dx + 2 k3_dx + k4_dx) * (delta / 6) to the
\* transform and (k1_dp + 2 k2_dp + 2 k3_dp + k4_dp) * (delta / 6) to the momentum
\* the state had when the call began, the k_dx being the velocities and the
\* k_dp the moments of the four stages in order; the stages are evaluated on
\* the state as it was before the one write.
C3_FinalUpdate ==
    [][ LET l == rk'
            sixth == DurationDiv(l.delta, 6)
            sum_dx == VelocityAdd(VelocityAdd(VelocityAdd(l.k1_dx,
                          VelocityMulF64(l.k2_dx, R2)), VelocityMulF64(l.k3_dx, R2)), l.k4_dx)
            sum_dp == MomentAdd(MomentAdd(MomentAdd(l.k1_dp,
                          MomentMulF64(l.k2_dp, R2)), MomentMulF64(l.k3_dp, R2)), l.k4_dp)
        IN  /\ l.int1 = state
            /\ l.k1_dx = StateVelocity(l.int1) /\ l.k1_dp = l.moment
            /\ l.k2_dx = StateVelocity(l.int2) /\ l.k2_dp = l.moment
            /\ l.k3_dx = StateVelocity(l.int3) /\ l.k3_dp = l.moment
            /\ l.k4_dx = StateVelocity(l.int4) /\ l.k4_dp = l.moment
            /\ state'.transform = TransformAdd(state.transform, VelocityMulDur(sum_dx, sixth))
            /\ state'.momentum = MomentumAdd(state.momentum, MomentMulDur(sum_dp, sixth))
      ]_vars

\* A call with delta of at least six ticks whose four stage velocities differ
\* and which moved, turned and accelerated the body.
C3_Witness ==
    /\ ret.op = "simulation_step"
    /\ rk.delta >= 6
    /\ rk.k1_dx # rk.k4_dx
    /\ rk.k2_dx # rk.k3_dx
    /\ state.transform.translation # rk.int1.transform.translation
    /\ state.transform.rotation # rk.int1.transform.rotation
    /\ state.momentum.linear # rk.int1.momentum.linear
    /\ state.momentum.angular # rk.int1.momentum.angular

\* C4: a state constructed with an empty panel list has, after any sequence of
\* calls made with the zero moment, the momentum it was constructed with.
C4_MomentumConserved ==
    (hist.init.panels = <<>> /\ hist.zero_moments) =>
        state.momentum = hist.init.momentum

\* Two calls with the zero moment on a moving, spinning body without panels.
C4_Witness ==
    /\ steps >= 2
    /\ hist.init.panels = <<>>
    /\ hist.zero_moments
    /\ state.momentum.linear # VZero
    /\ state.momentum.angular # VZero
    /\ state.transform.translation # hist.init.transform.translation
    /\ state.transform.rotation # hist.init.transform.rotation

\* C5 (as stated): a call with the zero moment on a state with no panels and no
\* angular momentum moves the translation by velocity.linear * delta and leaves
\* the rotation as it was.
C5_ConstantVelocityExact ==
    ( /\ ret.op = "simulation_step"
      /\ rk.int1.panels = <<>>
      /\ rk.moment = MomentZERO
      /\ rk.int1.momentum.angular = VZero ) =>
        /\ state.transform.translation =
               VAdd(rk.int1.transform.translation,
                    LinVelMulDur(StateVelocity(rk.int1).linear, rk.delta))
        /\ state.transform.rotation = rk.int1.transform.rotation

\* C6: after any sequence of calls the InertiaMass (mass, inertia, inv_inertia)
\* and the panel list are those the state was constructed with.
C6_MassAndPanelsUnchanged ==
    /\ state.mass = hist.init.mass
    /\ state.panels = hist.init.panels

\* Two calls on a body with panels that changed its transform and momentum.
C6_Witness ==
    /\ steps >= 2
    /\ state.panels # <<>>
    /\ state.transform # hist.init.transform
    /\ state.momentum # hist.init.momentum

----------------------------------------------------------------------------
(* State::velocity and the rotated tensors *)

\* C7: velocity() returns linear = momentum.linear / mass and angular =
\* (R(q) * inv_inertia * R(q)^T) * momentum.angular, q being the state's
\* rotation and inv_inertia the stored inverse tensor, and leaves the state as
\* it was constructed.
C7_VelocityValue ==
    ret.op = "velocity" =>
        LET R == MatFromQuat(state.transform.rotation)
            world_inv == MatMul(MatMul(R, state.mass.inv_inertia), MatTranspose(R))
        IN  /\ ret.val.linear = VDivS(state.momentum.linear, state.mass.mass)
            /\ ret.val.angular = MatMulVec3(world_inv, state.momentum.angular)
            /\ state = hist.init

\* velocity() called on a turned body whose angular velocity differs from the
\* one the body-frame inverse tensor would give.
C7_Witness ==
    /\ ret.op = "velocity"
    /\ MatFromQuat(state.transform.rotation) # MatIdentity
    /\ ret.val.linear # VZero
    /\ ret.val.angular # MatMulVec3(state.mass.inv_inertia, state.momentum.angular)

\* C8 (as stated): mass * velocity.linear and rotated_inertia() *
\* velocity.angular are exactly the state's momentum, in either arithmetic.
C8_RoundTripExact ==
    ret.op = "velocity" =>
        /\ VScale(ret.val.linear, state.mass.mass) = state.momentum.linear
        /\ MatMulVec3(RotatedInertia(state), ret.val.angular) = state.momentum.angular

\* C8 (amended): in real arithmetic mass * velocity.linear and
\* rotated_inertia() * velocity.angular are the state's momentum.
C8_RoundTripReal ==
    (arith = "real" /\ ret.op = "velocity") =>
        /\ VScale(ret.val.linear, state.mass.mass) = state.momentum.linear
        /\ MatMulVec3(RotatedInertia(state), ret.val.angular) = state.momentum.angular

\* velocity() in real arithmetic on a turned body with a tensor that the turn
\* changes, the mass not one and both velocities nonzero.
C8_Witness ==
    /\ arith = "real"
    /\ ret.op = "velocity"
    /\ RotatedInertia(state) # state.mass.inertia
    /\ state.mass.mass # R1
    /\ ret.val.linear # VZero
    /\ ret.val.angular # VZero

\* C10 (as stated): rotated(q) keeps the mass, has inertia R(q) * I * R(q)^T and
\* has as inv_inertia the stored inverse tensor transformed on its own,
\* R(q) * inv_inertia * R(q)^T, the value rotated_inv_inertia returns.
C10_RotatedInverseIsRotatedStoredInverse ==
    ret.op = "rotated_mass" =>
        LET R == MatFromQuat(state.transform.rotation)
        IN  /\ ret.val.mass = state.mass.mass
            /\ ret.val.inertia = MatMul(MatMul(R, state.mass.inertia), MatTranspose(R))
            /\ ret.val.inv_inertia =
                   MatMul(MatMul(R, state.mass.inv_inertia), MatTranspose(R))
            /\ ret.val.inv_inertia = RotatedInvInertia(state)

----------------------------------------------------------------------------
(* InertiaMass::new, rotated, rot_mat *)

----------------------------------------------------------------------------
(* Construction with invalid input *)

\* C11 (as stated): InertiaMass::new called with a tensor of determinant zero
\* ends in a panic, and an InertiaMass that new returned has a finite
\* inv_inertia.
C11_SingularInertiaFails ==
    ret.op = "new" =>
        /\ MatDeterminant(ret.inertia) = R0 => ret.panicked
        /\ ~ret.panicked => MatIsFinite(ret.val.inv_inertia)

\* C12 (as stated): InertiaMass::new given a mass that is zero or negative
\* panics, and the State that velocity() or simulation_step is called on has a
\* mass greater than zero.
C12_NonPositiveMassFails ==
    /\ (ret.op = "new" /\ ~RLt(R0, ret.mass)) => ret.panicked
    /\ ret.op \in {"velocity", "simulation_step"} => RLt(R0, state.mass.mass)

----------------------------------------------------------------------------
(* Rotation and Transform operators *)

\* C13: a + b is the quaternion product b.q * a.q, and after a += b the
\* rotation a holds that same product of b.q and the value a had.
C13_RotationAddOrder ==
    /\ ret.op = "rotation_add" => ret.val = QuatMul(ret.b, ret.a)
    /\ ret.op = "rotation_add_assign" =>
           state.transform.rotation = QuatMul(ret.b, ret.a)

\* a + b on two rotations that do not commute.
C13_Witness ==
    /\ ret.op = "rotation_add"
    /\ QuatMul(ret.b, ret.a) # QuatMul(ret.a, ret.b)
    /\ ret.val # ret.a
    /\ ret.val # ret.b

\* C14 (as stated): for all rotations, in either arithmetic, a - b is
\* b.q^-1 * a.q, a -= b leaves that value in a, a - a is the identity and
\* (a + b) - b is a.
C14_RotationSubExact ==
    /\ ret.op = "rotation_sub" =>
           /\ ret.val = QuatMul(QuatInverse(ret.b), ret.a)
           /\ ret.b = ret.a => ret.val = QuatIdentity
    /\ ret.op = "rotation_sub_assign" =>
           state.transform.rotation = QuatMul(QuatInverse(ret.b), ret.a)
    /\ ret.op = "rotation_add" => RotationSub(ret.val, ret.b) = ret.a

\* C14 (amended): a - b is conj(b.q) * a.q and a -= b leaves that value in a;
\* in real arithmetic a - a is the identity when a is of unit length and
\* (a + b) - b is a when b is of unit length.
C14_RotationSubUnit ==
    /\ ret.op = "rotation_sub" =>
           /\ ret.val = QuatMul(QuatInverse(ret.b), ret.a)
           /\ (arith = "real" /\ IsUnitQuat(ret.a) /\ ret.b = ret.a) =>
                  ret.val = QuatIdentity
    /\ ret.op = "rotation_sub_assign" =>
           state.transform.rotation = QuatMul(QuatInverse(ret.b), ret.a)
    /\ (ret.op = "rotation_add" /\ arith = "real" /\ IsUnitQuat(ret.b)) =>
           RotationSub(ret.val, ret.b) = ret.a

\* a - a in real arithmetic on a unit rotation that is neither the identity
\* nor its own inverse.
C14_Witness ==
    /\ arith = "real"
    /\ ret.op = "rotation_sub"
    /\ ret.b = ret.a
    /\ IsUnitQuat(ret.a)
    /\ ret.a # QuatIdentity
    /\ QuatInverse(ret.a) # ret.a
    /\ ret.val = QuatIdentity

\* C15: Transform + and - give the vector sum / difference of the translations
\* and the rotation a.rotation + b.rotation = b.q * a.q, respectively
\* a.rotation - b.rotation = conj(b.q) * a.q; += and -= leave those values in
\* a; Transform::ZERO added on either side of a transform gives that transform.
C15_TransformComponentwise ==
    /\ ret.op = "transform_add" =>
           /\ ret.val.translation = VAdd(ret.a.translation, ret.b.translation)
           /\ ret.val.rotation = QuatMul(ret.b.rotation, ret.a.rotation)
    /\ ret.op = "transform_sub" =>
           /\ ret.val.translation = VSub(ret.a.translation, ret.b.translation)
           /\ ret.val.rotation = QuatMul(QuatInverse(ret.b.rotation), ret.a.rotation)
    /\ ret.op = "transform_add_assign" =>
           /\ state.transform.translation = VAdd(ret.a.translation, ret.b.translation)
           /\ state.transform.rotation = QuatMul(ret.b.rotation, ret.a.rotation)
    /\ ret.op = "transform_sub_assign" =>
           /\ state.transform.translation = VSub(ret.a.translation, ret.b.translation)
           /\ state.transform.rotation =
                  QuatMul(QuatInverse(ret.b.rotation), ret.a.rotation)
    /\ TransformAdd(state.transform, TransformZERO) = state.transform
    /\ TransformAdd(TransformZERO, state.transform) = state.transform

\* a + b on transforms with different nonzero translations and rotations that
\* do not commute, a having been assigned to before.
C15_Witness ==
    /\ ret.op = "transform_add"
    /\ steps >= 1
    /\ ret.a.translation # VZero
    /\ ret.b.translation # VZero
    /\ ret.a.translation # ret.b.translation
    /\ QuatMul(ret.b.rotation, ret.a.rotation) # QuatMul(ret.a.rotation, ret.b.rotation)

\* dot(a, b) = 0 of the vectors as they are, without rounding.
IsPerpendicular(a, b) ==
    LET D == a[1][2] * b[1][2] * a[2][2] * b[2][2] * a[3][2] * b[3][2]
        T(i) == a[i][1] * b[i][1] * (D \div (a[i][2] * b[i][2]))
    IN  T(1) + T(2) + T(3) = 0

\* C16 as stated: to_force returns exactly the zero force whenever
\* dot(normal, v) = 0, for v = 0 and for every v perpendicular to the normal.
C16_ZeroForceExact ==
    (ret.op = "panel_to_force" /\ IsPerpendicular(ret.panel.normal, ret.rel_vel))
        => ret.val = VZero

\* C16, amended: to_force returns exactly the zero force for v = 0 in either
\* arithmetic, and for every v perpendicular to the normal in real arithmetic.
C16_ZeroForceReal ==
    (/\ ret.op = "panel_to_force"
     /\ IsPerpendicular(ret.panel.normal, ret.rel_vel)
     /\ (arith = "real" \/ ret.rel_vel = VZero))
        => ret.val = VZero

\* to_force has been called with v = 0, and with a v # 0 perpendicular to a
\* normal that is not an axis.
C16_Witness ==
    /\ ret.op = "panel_to_force"
    /\ IsPerpendicular(ret.panel.normal, ret.rel_vel)
    /\ ret.val = VZero
    /\ \/ ret.rel_vel = VZero /\ arith = "float"
       \/ ret.rel_vel = VecI(3, 4, 0) /\ ret.panel.normal = VecI(4, -3, 0) /\ arith = "real"

\* to_force has been called on a panel with normal X and area 1 and a
\* velocity along x.
IsAxialFlow ==
    /\ ret.op = "panel_to_force"
    /\ ret.panel.normal = VX
    /\ ret.panel.area = R1
    /\ ret.rel_vel[2] = R0
    /\ ret.rel_vel[3] = R0

\* DENSITY * HALF_C_D * v^2
AxialDrag(v) == RMul(RMul(DENSITY, HALF_C_D), RMul(v, v))

\* C17 as stated: on a panel with normal X and area 1, to_force of (v, 0, 0)
\* is (-DENSITY * HALF_C_D * v^2, 0, 0) for every v, positive or negative,
\* whatever the offset.
C17_AxialForce ==
    IsAxialFlow => ret.val = <<RNeg(AxialDrag(ret.rel_vel[1])), R0, R0>>

\* C17, amended: on a panel with normal X and area 1, to_force of (v, 0, 0)
\* has no y and z component and an x component of the sign opposite to v; in
\* real arithmetic it is (-DENSITY * HALF_C_D * v^2, 0, 0) for v >= 0 and
\* (+DENSITY * HALF_C_D * v^2, 0, 0) for v < 0, whatever the offset.
C17_AxialForceSigned ==
    IsAxialFlow =>
        LET v == ret.rel_vel[1] IN
        /\ ret.val[2] = R0
        /\ ret.val[3] = R0
        /\ RLt(R0, v) => RLt(ret.val[1], R0)
        /\ RLt(v, R0) => RLt(R0, ret.val[1])
        /\ v = R0 => ret.val[1] = R0
        /\ arith = "real" =>
              ret.val[1] = (IF RLt(v, R0) THEN AxialDrag(v) ELSE RNeg(AxialDrag(v)))

\* to_force has been called with a negative v on a panel with normal X, area
\* 1 and an offset that is not zero.
C17_Witness ==
    /\ IsAxialFlow
    /\ arith = "real"
    /\ RLt(ret.rel_vel[1], R0)
    /\ ret.panel.offset = VecI(0, 2, 0)
    /\ ret.val = <<AxialDrag(ret.rel_vel[1]), R0, R0>>

\* DENSITY * |v|^2 * HALF_C_D * area_component
DragMagnitude(p, v) ==
    RMul(RMul(RMul(DENSITY, VDot(v, v)), HALF_C_D),
         RMul(VDot(p.normal, NormalizeOrZero(v)), p.area))

\* C18: for every panel and every relative velocity v, to_force(v) is -normal
\* scaled by DENSITY * |v|^2 * HALF_C_D * area_component, so it has no
\* component perpendicular to the normal (here in real arithmetic).
C18_ForceAlongNormal ==
    (ret.op = "panel_to_force" /\ arith = "real")
        => ret.val = VScale(VNeg(ret.panel.normal), DragMagnitude(ret.panel, ret.rel_vel))

\* C19: rotated(q) returns the panel whose offset and normal are R(q) * offset
\* and R(q) * normal, R(q) the matrix of Inertia::rotated(q); the area is
\* unchanged (here in real arithmetic).
C19_RotatedIntoWorldFrame ==
    (ret.op = "panel_rotated" /\ arith = "real") =>
        /\ ret.val.offset = MatMulVec3(MatFromQuat(ret.rot), ret.panel.offset)
        /\ ret.val.normal = MatMulVec3(MatFromQuat(ret.rot), ret.panel.normal)
        /\ ret.val.area = ret.panel.area

\* The table of the quarter turns: the columns are the images of X, Y and Z
\* under rotated by the quarter turn about the axis.
QuarterTurnTable(axis) ==
    IF axis = VX THEN MatCols(VX, VecI(0, 0, -1), VY)
    ELSE IF axis = VY THEN MatCols(VZ, VY, VecI(-1, 0, 0))
    ELSE MatCols(VecI(0, -1, 0), VX, VZ)

\* The image of the integer vector v under the table, without rounding.
QuarterTurnImage(axis, v) ==
    LET m == QuarterTurnTable(axis)
    IN  [i \in 1..3 |-> Int2R(m[1][i][1] * v[1][1] + m[2][i][1] * v[2][1]
                               + m[3][i][1] * v[3][1])]

\* The rounding error allowed on a component of a rotated vector of
\* components up to 1 in magnitude: two units in the last place of 1.
RotatedTolerance == Rat(2, 2^MantissaBits)

\* |a[i] - b[i]| <= tol * scale on every component, without rounding.
IsNear(a, b, tol, scale) ==
    \A i \in 1..3 :
        LET diff == a[i][1] * b[i][2] - b[i][1] * a[i][2]
        IN  (IF diff < 0 THEN -diff ELSE diff) * tol[2] <= tol[1] * scale * a[i][2] * b[i][2]

\* The largest magnitude of a component of the integer vector v.
MaxComponent(v) ==
    CHOOSE m \in {IF v[i][1] < 0 THEN -v[i][1] ELSE v[i][1] : i \in 1..3} :
        \A j \in 1..3 : v[j][1] <= m /\ -v[j][1] <= m

\* C20: rotated by the quarter turn about x, y or z maps offset and normal by
\* the table (the axis of the turn unchanged, X by ry -> Z, X by rz -> -Y,
\* Y by rx -> -Z, Y by rz -> X, Z by rx -> Y, Z by ry -> -X), up to the
\* rounding of the floating-point quarter turn, and offset and normal by the
\* same map.
C20_QuarterTurns ==
    \A axis \in {VX, VY, VZ} :
        (ret.op = "panel_rotated" /\ ret.rot \in QuarterRotations(axis)) =>
            /\ IsNear(ret.val.offset, QuarterTurnImage(axis, ret.panel.offset),
                      RotatedTolerance, MaxComponent(ret.panel.offset))
            /\ IsNear(ret.val.normal, QuarterTurnImage(axis, ret.panel.normal),
                      RotatedTolerance, MaxComponent(ret.panel.normal))
            /\ ret.panel.offset = ret.panel.normal => ret.val.offset = ret.val.normal
            /\ ret.val.area = ret.panel.area

\* rotated has been called with the quarter turn about y on the panel at X
\* with normal X, and has turned both to about Z.
C20_Witness ==
    /\ ret.op = "panel_rotated"
    /\ ret.rot \in QuarterRotations(VY)
    /\ ret.panel = PanelNew(VX, VX, R1)
    /\ RLt(HalfR, ret.val.offset[3])
    /\ RLt(HalfR, ret.val.normal[3])

\* C21: tip_velocity(rot, vel) is vel.linear + vel.angular x world_offset,
\* world_offset the panel offset rotated into the world frame by rot; the
\* linear part is taken as given for every rot.
C21_TipVelocity ==
    ret.op = "panel_tip_velocity" =>
        ret.val = VAdd(ret.vel.linear,
                       VCross(ret.vel.angular, QuatMulVec3(ret.rot, ret.panel.offset)))

\* C22: with the identity rotation, rotation_based_velocity of a unit-axis
\* offset r and a unit-axis angular velocity w is zero when r and w are along
\* one axis, follows the cyclic table r = X, w = Y -> +Z; r = Y, w = Z -> +X;
\* r = Z, w = X -> +Y, and changes sign when r or w is negated.
C22_CyclicTable ==
    (ret.op = "panel_rotation_based_velocity" /\ ret.rot = QuatIdentity
     /\ ret.panel \in XyzPanels \cup XyzNegPanels) =>
        LET r == ret.panel.offset
            w == ret.vel
            Image(a, b) ==      \* the table on the axes a (offset) and b (w)
                IF a = VX /\ b = VY THEN VZ
                ELSE IF a = VY /\ b = VZ THEN VX
                ELSE IF a = VZ /\ b = VX THEN VY
                ELSE VZero
        IN  /\ (w = r \/ w = VNeg(r) \/ w = VZero) => ret.val = VZero
            /\ \A a, b \in {VX, VY, VZ} :
                  (Image(a, b) # VZero) =>
                      /\ (r = a /\ w = b) => ret.val = Image(a, b)
                      /\ (r = VNeg(a) /\ w = b) => ret.val = VNeg(Image(a, b))
                      /\ (r = a /\ w = VNeg(b)) => ret.val = VNeg(Image(a, b))
                      /\ (r = VNeg(a) /\ w = VNeg(b)) => ret.val = Image(a, b)

\* rotation_based_velocity has been called with the identity rotation on the
\* panel at -X with w = Y, and has returned -Z.
C22_Witness ==
    /\ ret.op = "panel_rotation_based_velocity"
    /\ ret.rot = QuatIdentity
    /\ ret.panel = PanelNew(VNeg(VX), VX, R1)
    /\ ret.vel = VY
    /\ ret.val = VNeg(VZ)

\* C23: to_moment(state) returns the Moment whose force is the world-frame
\* drag force of to_force at the tip velocity and whose torque is
\* world_offset x force, world_offset the offset rotated by the state's
\* rotation; a panel with zero offset yields zero torque.
C23_MomentOfForceAndOffset ==
    ret.op = "panel_to_moment" =>
        /\ ret.val.force = ret.force
        /\ ret.val.torque = VCross(QuatMulVec3(ret.rot, ret.panel.offset), ret.force)
        /\ ret.panel.offset = VZero => ret.val.torque = VZero

\* C24: the velocity from which to_moment(state) derives the tip velocity is
\* State::velocity() of that state.
C24_VelocityOfState ==
    ret.op = "panel_to_moment" => ret.vel = StateVelocity(ret.state)

\* C30: within one to_moment(state) call the offset used for the tip velocity
\* and the offset used as the lever arm of the torque are the same vector.
C30_OneWorldOffset ==
    ret.op = "panel_to_moment" => ret.tip_offset = ret.lever

\* C26 as stated: for every rotation q, rotated(q).rotated(q^-1) is the
\* original InertiaMass (inertia and inv_inertia) and the original Panel
\* (offset, normal, area); rotated(identity) returns the value unchanged.
C26_RoundTripExact ==
    ret.op = "rotated_back" =>
        /\ ret.mass_val = ret.mass
        /\ ret.panel_val = ret.panel

\* C26, amended: in real arithmetic and for q of unit length,
\* rotated(q).rotated(q^-1) is the original InertiaMass and the original
\* Panel; for q = identity it is so in floating-point arithmetic too, and the
\* mass and the area are unchanged for every q.
C26_RoundTripReal ==
    ret.op = "rotated_back" =>
        /\ ((arith = "real" /\ IsUnitQuat(ret.rot)) \/ ret.rot = QuatIdentity) =>
              (ret.mass_val = ret.mass /\ ret.panel_val = ret.panel)
        /\ ret.mass_val.mass = ret.mass.mass
        /\ ret.panel_val.area = ret.panel.area

\* A round trip in real arithmetic by a unit rotation that moves the panel
\* offset has returned the panel and an InertiaMass with products of inertia.
C26_Witness ==
    /\ ret.op = "rotated_back"
    /\ arith = "real"
    /\ ret.rot = QuatThirdTurn
    /\ ret.mass.inertia = InertiaSkew
    /\ PanelRotated(ret.panel, ret.rot).offset # ret.panel.offset
    /\ ret.panel.area = R2
    /\ ret.mass_val = ret.mass
    /\ ret.panel_val = ret.panel

\* C25: on the state of mass 1, inertia cylinder_x(1, 1, 1), angular momentum
\* (0.5, 0, 0), identity transform and one panel with offset X, normal Y and
\* area 1, a step with zero external moment and delta > 0 changes the z
\* component of the angular momentum.
C25_PanelTorqueAboutZ ==
    (/\ ret.op = "simulation_step"
     /\ steps = 1
     /\ hist.init = StepScenario
     /\ hist.zero_moments
     /\ rk.delta > 0) =>
        state.momentum.angular[3] # hist.init.momentum.angular[3]

\* The state of an entity after the first n steps of its plan, run alone.
RECURSIVE RunAlone(_, _, _)
RunAlone(init, plan, n) ==
    IF n = 0 THEN init
    ELSE On1(RunAlone(init, plan, n - 1),
             LAMBDA self : SimulationStepResult(self, plan[n][1], plan[n][2]))

\* C27: a simulation_step on one entity leaves the other entity unchanged,
\* and in every interleaving of the steps of A and of B each entity is in the
\* state that its own steps, run alone, lead to.
C27_IndependentEntities ==
    /\ [](\A e \in Entities : state[e] = RunAlone(hist.init[e], hist.plan[e], steps[e]))
    /\ [][\A e \in Entities : steps'[e] = steps[e] => state'[e] = state[e]]_vars

\* Both entities have made all their steps, B last, both have moved, and they
\* are in different states.
C27_Witness ==
    /\ ret.op = "simulation_step"
    /\ ret.entity = "B"
    /\ \A e \in Entities : steps[e] = MaxSteps /\ state[e] # hist.init[e]
    /\ state["A"] # state["B"]
    /\ hist.plan["A"] # hist.plan["B"]

\* The index of the last call of one of the methods ops, 0 if there is none.
LastCall(calls, ops) ==
    LET I == { i \in 1..Len(calls) : calls[i].op \in ops }
    IN  IF I = {} THEN 0 ELSE CHOOSE i \in I : \A j \in I : j <= i

\* The argument of the last call of method op, or default if there is none.
LastSet(calls, op, default) ==
    IF LastCall(calls, {op}) = 0 THEN default
    ELSE calls[LastCall(calls, {op})].arg

\* C28: build() panics exactly when mass() was never called; otherwise the
\* State has the last mass set, the last transform set or Transform::ZERO, and
\* the last momentum set or Momentum::ZERO; and each of the three setters
\* leaves the other three fields of the builder unchanged.
C28_BuildAfterSetters ==
    /\ [](ret.op = "build" =>
            /\ ret.panicked <=> LastCall(hist.calls, {"mass"}) = 0
            /\ ~ret.panicked =>
                  /\ ret.val.val.mass = LastSet(hist.calls, "mass", None)
                  /\ ret.val.val.transform
                        = LastSet(hist.calls, "transform", TransformZERO)
                  /\ ret.val.val.momentum
                        = LastSet(hist.calls, "momentum", MomentumZERO))
    /\ [][/\ ret'.op = "mass" =>
              /\ state'.transform = state.transform
              /\ state'.momentum = state.momentum
              /\ state'.panels = state.panels
          /\ ret'.op = "transform" =>
              /\ state'.mass = state.mass
              /\ state'.momentum = state.momentum
              /\ state'.panels = state.panels
          /\ ret'.op = "momentum" =>
              /\ state'.mass = state.mass
              /\ state'.transform = state.transform
              /\ state'.panels = state.panels]_vars

\* build() returned a State after the mass was set twice, to different values,
\* and the momentum once, and no transform was set.
C28_Witness ==
    /\ ret.op = "build" /\ ~ret.panicked
    /\ \E i, j \in 1..Len(hist.calls) :
          /\ i < j
          /\ hist.calls[i].op = "mass" /\ hist.calls[j].op = "mass"
          /\ hist.calls[i].arg # hist.calls[j].arg
    /\ LastCall(hist.calls, {"momentum"}) # 0
    /\ LastCall(hist.calls, {"transform"}) = 0
    /\ ret.val.val.transform = TransformZERO

\* The panels that the calls from index i on add, in call order.
RECURSIVE AddedFrom(_, _)
AddedFrom(calls, i) ==
    IF i > Len(calls) THEN <<>>
    ELSE (CASE calls[i].op = "add_panel" -> <<calls[i].arg>>
            [] calls[i].op = "add_panels" -> calls[i].arg
            [] OTHER -> <<>>) \o AddedFrom(calls, i + 1)

\* C29: the panel list of the built State is the argument of the last
\* panels(..) call (the empty list if there was none) followed by every panel
\* that add_panel / add_panels added after it, in call order, duplicates kept.
C29_PanelList ==
    (ret.op = "build" /\ ~ret.panicked) =>
        ret.val.val.panels =
            LastSet(hist.calls, "panels", <<>>)
                \o AddedFrom(hist.calls, LastCall(hist.calls, {"panels"}) + 1)

\* A State was built after an add, then panels(..) with a list that is not
\* empty, then add_panels with a list that holds a panel twice.
C29_Witness ==
    /\ ret.op = "build" /\ ~ret.panicked
    /\ \E i \in 2..(Len(hist.calls) - 1) :
          /\ hist.calls[i].op = "panels" /\ hist.calls[i].arg # <<>>
          /\ hist.calls[i - 1].op \in {"add_panel", "add_panels"}
          /\ hist.calls[i + 1].op = "add_panels"
          /\ Len(ret.val.val.panels) = Len(hist.calls[i].arg) + Len(hist.calls[i + 1].arg)

====
